---- MODULE Spec2Model ----
(***************************************************************************)
(* A model of semverify's #[cfg] predicate algebra (src/src/cfg.rs) and of *)
(* its report tree (src/src/report.rs).                                    *)
(***************************************************************************)
EXTENDS Integers, Sequences, FiniteSets

VARIABLES self, other, orig, prev, op, result, calls,
          report, before, phase, severity,
          loop, input

vars == <<self, other, orig, prev, op, result, calls,
          report, before, phase, severity,
          loop, input>>

cfgVars == <<self, other, orig, prev, op, result, calls>>

reportVars == <<report, before, phase, severity>>

\* the enumeration loop of any, and the input handed to the parser or the comparison
runVars == <<loop, input>>

(***************************************************************************)
(* Bounds.                                                                 *)
(***************************************************************************)

\* longest All/Any list of a predicate drawn as an operand of a binary operation
MaxLen == 2

\* largest number of nodes of a predicate drawn as the receiver of simplify
MaxNodes == 4

\* largest number of entries pushed below the root of a report
MaxItems == 3

(***************************************************************************)
(* enum Config: every variant is a record of the same shape, so that       *)
(* structural equality (#[derive(PartialEq, Eq)]) is record equality.      *)
(***************************************************************************)

Not(c) == [kind |-> "Not", key |-> "", val |-> "", inner |-> <<c>>]

All(cs) == [kind |-> "All", key |-> "", val |-> "", inner |-> cs]

Any(cs) == [kind |-> "Any", key |-> "", val |-> "", inner |-> cs]

TargetProperty(k, v) == [kind |-> "TargetProperty", key |-> k, val |-> v, inner |-> <<>>]

Feature(n) == [kind |-> "Feature", key |-> n, val |-> "", inner |-> <<>>]

Flag(n) == [kind |-> "Flag", key |-> n, val |-> "", inner |-> <<>>]

True == [kind |-> "True", key |-> "", val |-> "", inner |-> <<>>]

False == [kind |-> "False", key |-> "", val |-> "", inner |-> <<>>]

\* enum FreeVar<'a>: the semantic key of an atom
FreeVar(c) == [kind |-> c.kind, key |-> c.key, val |-> c.val]

is_universal(c) == c = True

(***************************************************************************)
(* The derived Ord of FreeVar: variants in declaration order, then the     *)
(* fields lexicographically.  Strings holds the model's strings in         *)
(* lexicographic order.                                                    *)
(***************************************************************************)

Strings == <<"", "linux", "not", "one", "target_family", "target_os", "unix", "windows">>

StrRank(s) == CHOOSE i \in 1..Len(Strings) : Strings[i] = s

KindRank(k) == CASE k = "TargetProperty" -> 1 [] k = "Feature" -> 2 [] k = "Flag" -> 3

FreeVarLess(x, y) ==
    \/ KindRank(x.kind) < KindRank(y.kind)
    \/ /\ x.kind = y.kind
       /\ \/ StrRank(x.key) < StrRank(y.key)
          \/ x.key = y.key /\ StrRank(x.val) < StrRank(y.val)

RECURSIVE BTreeSetIter(_)
\* iteration over a BTreeSet<FreeVar>: ascending order
BTreeSetIter(S) ==
    IF S = {} THEN <<>>
    ELSE LET m == CHOOSE x \in S : \A y \in S \ {x} : FreeVarLess(x, y)
         IN  <<m>> \o BTreeSetIter(S \ {m})

RECURSIVE find_free_vars(_)
find_free_vars(c) ==
    CASE c.kind \in {"Not", "All", "Any"} ->
            UNION {find_free_vars(c.inner[i]) : i \in 1..Len(c.inner)}
      [] c.kind \in {"TargetProperty", "Feature", "Flag"} -> {FreeVar(c)}
      [] OTHER -> {}

RECURSIVE evaluate(_, _)
evaluate(c, set) ==
    CASE c.kind = "Not" -> ~evaluate(c.inner[1], set)
      [] c.kind = "All" -> \A i \in 1..Len(c.inner) : evaluate(c.inner[i], set)
      [] c.kind = "Any" -> \E i \in 1..Len(c.inner) : evaluate(c.inner[i], set)
      [] c.kind \in {"TargetProperty", "Feature", "Flag"} -> FreeVar(c) \in set
      [] c.kind = "True" -> TRUE
      [] c.kind = "False" -> FALSE

(***************************************************************************)
(* fn any: the enumeration behind subset / intersects / equivalent.        *)
(***************************************************************************)

\* Iterator::position over options: the first group led by a TargetProperty of this key
Position(opts, key) ==
    LET hits == {i \in 1..Len(opts) :
                    opts[i][1].kind = "TargetProperty" /\ opts[i][1].key = key}
    IN  IF hits = {} THEN 0 ELSE CHOOSE i \in hits : \A j \in hits : i <= j

\* one step of "for var in &free_vars": push var on its key's group, or open a group
AddOption(opts, var) ==
    IF var.kind = "TargetProperty" /\ Position(opts, var.key) > 0
    THEN [opts EXCEPT ![Position(opts, var.key)] = Append(@, var)]
    ELSE Append(opts, <<var>>)

RECURSIVE options_ungrouped(_)
options_ungrouped(fv) ==
    IF fv = <<>> THEN <<>>
    ELSE Append(options_ungrouped(SubSeq(fv, 1, Len(fv) - 1)), <<fv[Len(fv)]>>)

RECURSIVE options(_)
\* "turn free var set into series of options to iterate"
options(fv) ==
    IF fv = <<>> THEN <<>>
    ELSE AddOption(options(SubSeq(fv, 1, Len(fv) - 1)), fv[Len(fv)])

\* "evaluate the current set of positions": the assignment the positions select
CurrentSet(opts, positions) ==
    {opts[i][positions[i]] : i \in {j \in 1..Len(opts) : positions[j] > 0}}

RECURSIVE StepFrom_skip_last(_, _, _)
StepFrom_skip_last(opts, positions, i) ==
    IF i > Len(opts) THEN [broke |-> TRUE, positions |-> positions]
    ELSE IF positions[i] + 1 >= Len(opts[i])
         THEN StepFrom_skip_last(opts, [positions EXCEPT ![i] = 0], i + 1)
         ELSE [broke |-> FALSE, positions |-> [positions EXCEPT ![i] = @ + 1]]

RECURSIVE StepFrom(_, _, _)
\* "step to next set of positions, or break": an odometer, lowest digit first
StepFrom(opts, positions, i) ==
    IF i > Len(opts) THEN [broke |-> TRUE, positions |-> positions]
    ELSE IF positions[i] + 1 > Len(opts[i])
         THEN StepFrom(opts, [positions EXCEPT ![i] = 0], i + 1)
         ELSE [broke |-> FALSE, positions |-> [positions EXCEPT ![i] = @ + 1]]

\* the three test closures handed to any, by the name of the caller
Closure(f, one, two, set) ==
    CASE f = "subset" -> evaluate(one, set) /\ ~evaluate(two, set)
      [] f = "intersects" -> evaluate(one, set) /\ evaluate(two, set)
      [] f = "equivalent" -> evaluate(one, set) # evaluate(two, set)

RECURSIVE AnyLoop(_, _, _, _, _)
\* 'outer: loop
AnyLoop(one, two, f, opts, positions) ==
    IF Closure(f, one, two, CurrentSet(opts, positions)) THEN TRUE
    ELSE LET step == StepFrom(opts, positions, 1)
         IN  IF step.broke THEN FALSE
             ELSE AnyLoop(one, two, f, opts, step.positions)

any(one, two, f) ==
    LET free_vars == find_free_vars(one) \cup find_free_vars(two)
        opts == options(BTreeSetIter(free_vars))
    IN  AnyLoop(one, two, f, opts, [i \in 1..Len(opts) |-> 0])

(***************************************************************************)
(* impl Config                                                             *)
(***************************************************************************)

subset_short_circuit(a, b) ==
    IF is_universal(b) \/ is_universal(a) THEN TRUE ELSE ~any(a, b, "subset")

subset(a, b) ==
    IF is_universal(b) THEN TRUE ELSE ~any(a, b, "subset")

intersects(a, b) ==
    IF is_universal(b) \/ is_universal(a) THEN TRUE ELSE any(a, b, "intersects")

equivalent_either(a, b) ==
    IF is_universal(a) \/ is_universal(b) THEN TRUE ELSE ~any(a, b, "equivalent")

equivalent(a, b) ==
    IF is_universal(a) /\ is_universal(b) THEN TRUE ELSE ~any(a, b, "equivalent")

union_drop_receiver(a, b) ==
    IF a.kind = "Any"
    THEN Any(Append(a.inner, b))
    ELSE IF b.kind = "Any" THEN b ELSE Any(<<b, a>>)

\* a.union(b): the new value of the receiver
union(a, b) ==
    IF a.kind = "Any"
    THEN IF b.kind = "Any" THEN Any(a.inner \o b.inner) ELSE Any(Append(a.inner, b))
    ELSE \* mem::swap(self, &mut other): the receiver now holds b
         IF b.kind = "Any" THEN Any(Append(b.inner, a)) ELSE Any(<<b, a>>)

\* Vec::retain(|i| *i != drop)
Retain(cs, drop) ==
    LET keep(c) == c # drop IN SelectSeq(cs, keep)

RECURSIVE simplify_keep_first(_)
simplify_keep_first(c) ==
    CASE c.kind = "Not" ->
            LET inner == simplify_keep_first(c.inner[1])
            IN  IF inner = True THEN False
                ELSE IF inner = False THEN True
                ELSE Not(inner)
      [] c.kind = "All" ->
            LET inner == Retain([i \in 1..Len(c.inner) |->
                                    simplify_keep_first(c.inner[i])], True)
            IN  IF Len(inner) = 0 THEN True
                ELSE IF Len(inner) >= 1 THEN inner[1]
                ELSE All(inner)
      [] c.kind = "Any" ->
            LET inner == Retain([i \in 1..Len(c.inner) |->
                                    simplify_keep_first(c.inner[i])], False)
            IN  IF Len(inner) = 0 THEN False
                ELSE IF Len(inner) = 1 THEN inner[1]
                ELSE Any(inner)
      [] OTHER -> c

RECURSIVE simplify_late(_)
simplify_late(c) ==
    CASE c.kind = "Not" ->
            LET inner == simplify_late(c.inner[1])
            IN  IF inner = True THEN False
                ELSE IF inner = False THEN True
                ELSE Not(inner)
      [] c.kind = "All" ->
            LET kept == Retain(c.inner, True)
                inner == [i \in 1..Len(kept) |-> simplify_late(kept[i])]
            IN  IF Len(inner) = 0 THEN True
                ELSE IF Len(inner) = 1 THEN inner[1]
                ELSE All(inner)
      [] c.kind = "Any" ->
            LET kept == Retain(c.inner, False)
                inner == [i \in 1..Len(kept) |-> simplify_late(kept[i])]
            IN  IF Len(inner) = 0 THEN False
                ELSE IF Len(inner) = 1 THEN inner[1]
                ELSE Any(inner)
      [] OTHER -> c

RECURSIVE simplify_keep_not(_)
simplify_keep_not(c) ==
    CASE c.kind = "Not" -> Not(simplify_keep_not(c.inner[1]))
      [] c.kind = "All" ->
            LET inner == Retain([i \in 1..Len(c.inner) |->
                                    simplify_keep_not(c.inner[i])], True)
            IN  IF Len(inner) = 0 THEN True
                ELSE IF Len(inner) = 1 THEN inner[1]
                ELSE All(inner)
      [] c.kind = "Any" ->
            LET inner == Retain([i \in 1..Len(c.inner) |->
                                    simplify_keep_not(c.inner[i])], False)
            IN  IF Len(inner) = 0 THEN False
                ELSE IF Len(inner) = 1 THEN inner[1]
                ELSE Any(inner)
      [] OTHER -> c

RECURSIVE simplify(_)
\* c.simplify(): the new value of the receiver
simplify(c) ==
    CASE c.kind = "Not" ->
            LET inner == simplify(c.inner[1])
            IN  IF inner = True THEN False
                ELSE IF inner = False THEN True
                ELSE Not(inner)
      [] c.kind = "All" ->
            LET inner == Retain([i \in 1..Len(c.inner) |-> simplify(c.inner[i])], True)
            IN  IF Len(inner) = 0 THEN True
                ELSE IF Len(inner) = 1 THEN inner[1]
                ELSE All(inner)
      [] c.kind = "Any" ->
            LET inner == Retain([i \in 1..Len(c.inner) |-> simplify(c.inner[i])], False)
            IN  IF Len(inner) = 0 THEN False
                ELSE IF Len(inner) = 1 THEN inner[1]
                ELSE Any(inner)
      [] OTHER -> c

(***************************************************************************)
(* The predicates the operations are applied to.                           *)
(***************************************************************************)

Atoms ==
    {TargetProperty("target_os", "linux"), TargetProperty("target_os", "windows"),
     TargetProperty("target_family", "unix"), Feature("one"), Flag("one")}

Leaves == Atoms \cup {True, False}

SeqsUpTo(S, n) == UNION {[1..k -> S] : k \in 0..n}

ListLeaves ==
    {TargetProperty("target_os", "linux"), TargetProperty("target_os", "windows"),
     Feature("one"), True, False}

\* atoms, sentinels, their negations, and All/Any lists of ListLeaves
Operands ==
    Leaves \cup {Not(c) : c \in Leaves}
           \cup {All(cs) : cs \in SeqsUpTo(ListLeaves, MaxLen)}
           \cup {Any(cs) : cs \in SeqsUpTo(ListLeaves, MaxLen)}

SimplifyLeaves ==
    {True, False, Feature("one"), TargetProperty("target_os", "linux")}

RECURSIVE TreesOfSize(_), Forests(_)
\* the predicates of exactly n nodes over SimplifyLeaves
TreesOfSize(n) ==
    IF n = 1 THEN SimplifyLeaves \cup {All(<<>>), Any(<<>>)}
    ELSE LET lists == Forests(n - 1)
         IN  {Not(t) : t \in TreesOfSize(n - 1)}
                 \cup {All(f) : f \in lists} \cup {Any(f) : f \in lists}

\* the non-empty lists of predicates of n nodes in all
Forests(n) ==
    UNION {{<<t>> \o f : t \in TreesOfSize(k),
                         f \in (IF k = n THEN {<<>>} ELSE Forests(n - k))} : k \in 1..n}

Trees == UNION {TreesOfSize(n) : n \in 1..MaxNodes}

(***************************************************************************)
(* The meaning of a predicate: the assignments a target can have.  Every   *)
(* Feature and Flag is free; a TargetProperty key has at most one value.   *)
(***************************************************************************)

AllVars == {FreeVar(c) : c \in Atoms}

ValidAssignments ==
    {s \in SUBSET AllVars :
        \A x, y \in s : (x.kind = "TargetProperty" /\ y.kind = "TargetProperty"
                         /\ x.key = y.key) => x.val = y.val}

Entails(a, b) == \A s \in ValidAssignments : evaluate(a, s) => evaluate(b, s)

Overlap(a, b) == \E s \in ValidAssignments : evaluate(a, s) /\ evaluate(b, s)

(***************************************************************************)
(* The report tree is idle while the predicate algebra is exercised.       *)
(***************************************************************************)

\* no enumeration is in progress and nothing was handed in
RunIdle ==
    /\ loop = [pc |-> "idle", opts |-> <<>>, positions |-> <<>>, visited |-> <<>>]
    /\ input = <<>>

ReportIdle ==
    /\ report = <<>>
    /\ before = <<>>
    /\ phase = "idle"
    /\ severity = "none"

(***************************************************************************)
(* Operations of the predicate algebra on a pair of operands.              *)
(***************************************************************************)

InitCfg ==
    /\ self \in Operands
    /\ other \in Operands
    /\ orig = self
    /\ prev = self
    /\ op = "new"
    /\ result = FALSE
    /\ calls = 0
    /\ ReportIdle
    /\ RunIdle

Subset ==
    /\ op = "new"
    /\ op' = "subset"
    /\ result' = subset(self, other)
    /\ UNCHANGED <<self, other, orig, prev, calls, reportVars, runVars>>

Intersects ==
    /\ op = "new"
    /\ op' = "intersects"
    /\ result' = intersects(self, other)
    /\ UNCHANGED <<self, other, orig, prev, calls, reportVars, runVars>>

Equivalent ==
    /\ op = "new"
    /\ op' = "equivalent"
    /\ result' = equivalent(self, other)
    /\ UNCHANGED <<self, other, orig, prev, calls, reportVars, runVars>>

Union ==
    /\ op = "new"
    /\ op' = "union"
    /\ self' = union(self, other)
    /\ UNCHANGED <<other, orig, prev, result, calls, reportVars, runVars>>

NextCfg == Subset \/ Intersects \/ Equivalent \/ Union

SpecCfg == InitCfg /\ [][NextCfg]_vars

(***************************************************************************)
(* simplify, applied to a predicate and then again to its result.          *)
(***************************************************************************)

InitSimplify ==
    /\ self \in Trees
    /\ other = True
    /\ orig = self
    /\ prev = self
    /\ op = "new"
    /\ result = FALSE
    /\ calls = 0
    /\ ReportIdle
    /\ RunIdle

Simplify ==
    /\ calls < 2
    /\ op' = "simplify"
    /\ prev' = self
    /\ self' = simplify(self)
    /\ calls' = calls + 1
    /\ UNCHANGED <<other, orig, result, reportVars, runVars>>

NextSimplify == Simplify

SpecSimplify == InitSimplify /\ [][NextSimplify]_vars

(***************************************************************************)
(* fn any, one pass of its loop at a time: the options are built on entry, *)
(* then each round evaluates the closure on the current assignment and     *)
(* steps the positions.  visited lists the assignments the closure saw.    *)
(***************************************************************************)

\* second operands of the enumeration: atoms, sentinels and their negations
Literals == Leaves \cup {Not(c) : c \in Leaves}

InitAny ==
    /\ self = True
    /\ other = True
    /\ orig = True
    /\ prev = True
    /\ op = "new"
    /\ result = FALSE
    /\ calls = 0
    /\ loop = [pc |-> "call", opts |-> <<>>, positions |-> <<>>, visited |-> <<>>]
    /\ input = <<>>
    /\ ReportIdle

\* the call any(one, other, f): "compute free var set", "turn free var set into
\* series of options to iterate", and the positions all zero
AnyEnter ==
    /\ loop.pc = "call"
    /\ \E one \in Operands, two \in Literals, f \in {"subset", "intersects", "equivalent"} :
          LET opts == options(BTreeSetIter(find_free_vars(one) \cup find_free_vars(two)))
          IN  /\ self' = one
              /\ other' = two
              /\ op' = f
              /\ loop' = [pc |-> "evaluate", opts |-> opts,
                          positions |-> [i \in 1..Len(opts) |-> 0], visited |-> <<>>]
    /\ UNCHANGED <<orig, prev, result, calls, reportVars, input>>

\* "evaluate the current set of positions": return true on a witness
AnyEvaluate ==
    /\ loop.pc = "evaluate"
    /\ LET set == CurrentSet(loop.opts, loop.positions)
       IN  /\ loop' = [loop EXCEPT !.visited = Append(@, set),
                                   !.pc = IF Closure(op, self, other, set)
                                          THEN "done" ELSE "step"]
           /\ result' = Closure(op, self, other, set)
    /\ UNCHANGED <<self, other, orig, prev, op, calls, reportVars, input>>

\* "step to next set of positions, or break" and return false
AnyStep ==
    /\ loop.pc = "step"
    /\ LET step == StepFrom(loop.opts, loop.positions, 1)
       IN  loop' = [loop EXCEPT !.positions = step.positions,
                                !.pc = IF step.broke THEN "done" ELSE "evaluate"]
    /\ UNCHANGED <<cfgVars, reportVars, input>>

NextAny == AnyEnter \/ AnyEvaluate \/ AnyStep

SpecAny == InitAny /\ [][NextAny]_vars

\* the loop runs on one thread and nothing suspends it: a round that can run does
SpecAnyFair == SpecAny /\ WF_vars(NextAny)

(***************************************************************************)
(* The report tree (src/src/report.rs).  A node is a record of its item    *)
(* and the list of its children.  The text of an entry is the number of    *)
(* the push that made it (0 for the root), so an entry can be told from    *)
(* every other one.                                                        *)
(***************************************************************************)

Severity == <<"Debug", "Note", "Minor", "Warning", "Breaking", "Major", "Error">>

Strictness == <<"Lazy", "Inherit", "Strict">>

\* the derived Ord of a fieldless enum: the position of the variant
Ord(variants, v) == CHOOSE i \in 1..Len(variants) : variants[i] = v

ReportItem(strict, sev, text) == [strict |-> strict, severity |-> sev, text |-> text]

\* impl From<ReportItem> for Report
From(item) == [item |-> item, children |-> <<>>]

Report_new == From(ReportItem("Strict", "Note", 0))

RECURSIVE Size(_)
\* the number of nodes of a report
Size(r) ==
    LET RECURSIVE Sum(_)
        Sum(i) == IF i = 0 THEN 0 ELSE Size(r.children[i]) + Sum(i - 1)
    IN  1 + Sum(Len(r.children))

RECURSIVE OpenDepth(_)
\* how many nested handles are live: the chain of last children below r
OpenDepth(r) ==
    IF r.children = <<>> THEN 0 ELSE 1 + OpenDepth(r.children[Len(r.children)])

RECURSIVE push(_, _, _)
\* Report::push on the live handle d levels below r
push(r, d, child) ==
    IF d = 0 THEN [r EXCEPT !.children = Append(@, From(child))]
    ELSE [r EXCEPT !.children[Len(r.children)] = push(@, d - 1, child)]

RECURSIVE MaxOf(_, _)
\* Iterator::max over a list of severities; 0 stands for None
MaxOf(sevs, i) ==
    IF i = 0 THEN 0
    ELSE LET rest == MaxOf(sevs, i - 1)
         IN  IF Ord(Severity, sevs[i]) >= rest THEN Ord(Severity, sevs[i]) ELSE rest

RECURSIVE highest_severity(_)
highest_severity(r) ==
    LET sevs == [i \in 1..Len(r.children) |-> highest_severity(r.children[i])]
        max == MaxOf(sevs, Len(sevs))
    IN  IF max = 0 THEN r.item.severity ELSE Severity[max]

\* fn delete_if over the outcomes of f on each element: the elements f kept, in order
delete_if(outcomes) ==
    LET kept(o) == ~o.delete
        left == SelectSeq(outcomes, kept)
    IN  [i \in 1..Len(left) |-> left[i].node]

RECURSIVE strip_lazy(_)
\* Report::strip_lazy: the node as it is left, and the returned flag
strip_lazy(r) ==
    LET children == delete_if([i \in 1..Len(r.children) |-> strip_lazy(r.children[i])])
    IN  [node |-> [r EXCEPT !.children = children],
         delete |-> /\ r.item.strict = "Lazy"
                    /\ \A i \in 1..Len(children) :
                          Ord(Strictness, children[i].item.strict) < Ord(Strictness, "Strict")]

(***************************************************************************)
(* A comparison run pushes entries into the report; the pruning pass and   *)
(* the severity summary are applied to the tree it leaves.                 *)
(***************************************************************************)

CfgIdle ==
    /\ self = True
    /\ other = True
    /\ orig = True
    /\ prev = True
    /\ op = "idle"
    /\ result = FALSE
    /\ calls = 0

InitReport ==
    /\ report = Report_new
    /\ before = Report_new
    /\ phase = "comparing"
    /\ severity = "none"
    /\ CfgIdle
    /\ RunIdle

Push ==
    /\ phase = "comparing"
    /\ severity = "none"
    /\ Size(report) <= MaxItems
    /\ \E d \in 0..OpenDepth(report) :
       \E strict \in {Strictness[i] : i \in 1..Len(Strictness)} :
       \E sev \in {Severity[i] : i \in 1..Len(Severity)} :
           report' = push(report, d, ReportItem(strict, sev, Size(report)))
    /\ before' = report'
    /\ UNCHANGED <<phase, severity, cfgVars, runVars>>

StripLazy ==
    /\ phase = "comparing"
    /\ severity = "none"
    /\ before' = report
    /\ report' = strip_lazy(report).node
    /\ phase' = "stripped"
    /\ UNCHANGED <<severity, cfgVars, runVars>>

HighestSeverity ==
    /\ phase \in {"comparing", "stripped"}
    /\ severity = "none"
    /\ severity' = highest_severity(report)
    /\ UNCHANGED <<report, before, phase, cfgVars, runVars>>

NextReport == Push \/ StripLazy \/ HighestSeverity

SpecReport == InitReport /\ [][NextReport]_vars

(***************************************************************************)
(* Parsing #[cfg] attributes (cfg_from_attr_list, cfg_from_meta).  A meta  *)
(* item is a Word, a List of meta items or a NameValue with a literal; a   *)
(* parse yields the predicate and the entries it pushed, in order.         *)
(***************************************************************************)

\* longest predicate expression handed to the parser, in meta items
MaxMeta == 3

Word(s) == [meta |-> "Word", name |-> s, items |-> <<>>, lit |-> [kind |-> "none", value |-> ""]]

List(s, items) ==
    [meta |-> "List", name |-> s, items |-> items, lit |-> [kind |-> "none", value |-> ""]]

NameValue(s, lit) == [meta |-> "NameValue", name |-> s, items |-> <<>>, lit |-> lit]

\* LitKind::Str and a literal of another kind
LitStr(v) == [kind |-> "Str", value |-> v]

LitInt(v) == [kind |-> "Int", value |-> v]

\* push!(r, Error, ...): the entry with the formatted text
ErrorItem(text) == ReportItem("Strict", "Error", text)

\* the {:?} form of a literal
DebugLit(lit) == lit.kind \o "(" \o lit.value \o ")"

RECURSIVE Flatten(_)
\* the entries pushed by a list of parses, first parse first
Flatten(parts) ==
    IF parts = <<>> THEN <<>> ELSE parts[1].pushed \o Flatten(Tail(parts))

TargetKeys ==
    {"target_arch", "target_os", "target_family", "target_env", "target_endian",
     "target_pointer_width", "target_vendor"}

RECURSIVE cfg_from_meta_no_return(_)
cfg_from_meta_no_return(attr) ==
    CASE attr.meta = "Word" ->
            [cfg |-> IF attr.name \in {"unix", "windows"}
                     THEN TargetProperty("target_family", attr.name)
                     ELSE Flag(attr.name),
             pushed |-> <<>>]
      [] attr.meta = "List" ->
            LET parts == [i \in 1..Len(attr.items) |-> cfg_from_meta_no_return(attr.items[i])]
                inner == [i \in 1..Len(parts) |-> parts[i].cfg]
            IN  CASE attr.name = "all" -> [cfg |-> All(inner), pushed |-> Flatten(parts)]
                  [] attr.name = "any" -> [cfg |-> Any(inner), pushed |-> Flatten(parts)]
                  [] attr.name = "not" ->
                        IF Len(attr.items) = 1
                        THEN [cfg |-> Not(inner[1]), pushed |-> Flatten(parts)]
                        ELSE [cfg |-> Flag("not"),
                              pushed |-> <<ErrorItem("Non-unary #[cfg(not())]")>>]
                  [] OTHER ->
                        [cfg |-> Flag(attr.name),
                         pushed |-> <<ErrorItem("Unknown #[cfg] list: " \o attr.name \o "(...)")>>]
      [] attr.meta = "NameValue" ->
            LET first == IF attr.lit.kind # "Str"
                         THEN <<ErrorItem("Non-string #[cfg]: " \o attr.name \o " = " \o DebugLit(attr.lit))>>
                         ELSE <<>>
            IN  CASE attr.name = "feature" /\ attr.lit.kind = "Str" ->
                        [cfg |-> Feature(attr.lit.value), pushed |-> first]
                  [] attr.name \in TargetKeys /\ attr.lit.kind = "Str" ->
                        [cfg |-> TargetProperty(attr.name, attr.lit.value), pushed |-> first]
                  [] attr.name = "target_has_atomic" /\ attr.lit.kind = "Str" ->
                        [cfg |-> Flag("target_has_atomic=\"" \o attr.lit.value \o "\""),
                         pushed |-> first]
                  [] OTHER ->
                        [cfg |-> Flag(attr.name),
                         pushed |-> first \o IF attr.name \in TargetKeys
                                                    \cup {"feature", "target_has_atomic"}
                                             THEN <<>>
                                             ELSE <<ErrorItem("Unknown #[cfg] key-value pair: "
                                                                \o attr.name \o " = "
                                                                \o DebugLit(attr.lit))>>]

RECURSIVE cfg_from_meta(_)
cfg_from_meta(attr) ==
    CASE attr.meta = "Word" ->
            [cfg |-> IF attr.name \in {"unix", "windows"}
                     THEN TargetProperty("target_family", attr.name)
                     ELSE Flag(attr.name),
             pushed |-> <<>>]
      [] attr.meta = "List" ->
            LET parts == [i \in 1..Len(attr.items) |-> cfg_from_meta(attr.items[i])]
                inner == [i \in 1..Len(parts) |-> parts[i].cfg]
            IN  CASE attr.name = "all" -> [cfg |-> All(inner), pushed |-> Flatten(parts)]
                  [] attr.name = "any" -> [cfg |-> Any(inner), pushed |-> Flatten(parts)]
                  [] attr.name = "not" ->
                        IF Len(attr.items) = 1
                        THEN [cfg |-> Not(inner[1]), pushed |-> Flatten(parts)]
                        ELSE [cfg |-> Flag("not"),
                              pushed |-> <<ErrorItem("Non-unary #[cfg(not())]")>>]
                  [] OTHER ->
                        [cfg |-> Flag(attr.name),
                         pushed |-> <<ErrorItem("Unknown #[cfg] list: " \o attr.name \o "(...)")>>]
      [] attr.meta = "NameValue" ->
            IF attr.lit.kind # "Str"
            THEN [cfg |-> Flag(attr.name),
                  pushed |-> <<ErrorItem("Non-string #[cfg]: " \o attr.name \o " = " \o DebugLit(attr.lit))>>]
            ELSE CASE attr.name = "feature" ->
                        [cfg |-> Feature(attr.lit.value), pushed |-> <<>>]
                   [] attr.name \in TargetKeys ->
                        [cfg |-> TargetProperty(attr.name, attr.lit.value), pushed |-> <<>>]
                   [] attr.name = "target_has_atomic" ->
                        [cfg |-> Flag("target_has_atomic=\"" \o attr.lit.value \o "\""),
                         pushed |-> <<>>]
                   [] OTHER ->
                        [cfg |-> Flag(attr.name),
                         pushed |-> <<ErrorItem("Unknown #[cfg] key-value pair: "
                                                  \o attr.name \o " = "
                                                  \o DebugLit(attr.lit))>>]

\* the closure of cfg_from_attr_list's flat_map: what one attribute contributes
FromAttr(attr) ==
    IF attr.meta = "List" /\ attr.name = "cfg" /\ Len(attr.items) = 1
    THEN <<cfg_from_meta(attr.items[1])>>
    ELSE <<>>

RECURSIVE FlatMap(_)
FlatMap(attrs) ==
    IF attrs = <<>> THEN <<>> ELSE FromAttr(attrs[1]) \o FlatMap(Tail(attrs))

\* None is the Option without a predicate
None == [kind |-> "None", key |-> "", val |-> "", inner |-> <<>>]

cfg_from_attr_list(attrs) ==
    LET parts == FlatMap(attrs)
        all == [i \in 1..Len(parts) |-> parts[i].cfg]
    IN  [cfg |-> IF Len(all) = 0 THEN None
                 ELSE IF Len(all) = 1 THEN all[1]
                 ELSE All(all),
         pushed |-> Flatten(parts)]

\* Config::new: unwrap_or(Config::True)
Config_new(attrs) ==
    LET got == cfg_from_attr_list(attrs)
    IN  [cfg |-> IF got.cfg = None THEN True ELSE got.cfg, pushed |-> got.pushed]

RECURSIVE PushAll(_, _)
\* the entries of a parse pushed on r, in order
PushAll(r, items) ==
    IF items = <<>> THEN r ELSE PushAll(push(r, 0, items[1]), Tail(items))

\* the leaves of the parsed expressions: words and key-value pairs
MetaLeaves ==
    {Word("unix"), Word("one")}
        \cup {NameValue(k, l) : k \in {"feature", "target_os", "target_has_atomic", "bogus"},
                                l \in {LitStr("one"), LitInt("1")}}

ListHeads == {"all", "any", "not", "bogus"}

RECURSIVE MetasOfSize(_)
\* the meta items made of exactly n items, lists of at most MaxLen entries
MetasOfSize(n) ==
    IF n = 1 THEN MetaLeaves \cup {List(h, <<>>) : h \in ListHeads}
    ELSE {List(h, <<m>>) : h \in ListHeads, m \in MetasOfSize(n - 1)}
             \cup (IF MaxLen < 2 THEN {}
                   ELSE UNION {{List(h, <<a, b>>) : h \in ListHeads,
                                                   a \in MetasOfSize(k),
                                                   b \in MetasOfSize(n - 1 - k)} :
                               k \in 1..(n - 2)})

Metas == UNION {MetasOfSize(n) : n \in 1..MaxMeta}

\* the attribute lists of an item: no attribute, one #[cfg(..)], two of them,
\* an attribute that is no #[cfg], and a #[cfg] with two arguments
AttrLists ==
    {<<>>, <<Word("inline")>>, <<Word("inline"), List("cfg", <<Word("one")>>)>>}
        \cup {<<List("cfg", <<m>>)>> : m \in Metas}
        \cup {<<List("cfg", <<a>>), List("cfg", <<b>>)>> : a, b \in MetaLeaves}
        \cup {<<List("cfg", <<a, b>>)>> : a, b \in {Word("one"), NameValue("bogus", LitInt("1"))}}

InitParse ==
    /\ input \in AttrLists
    /\ loop = [pc |-> "idle", opts |-> <<>>, positions |-> <<>>, visited |-> <<>>]
    /\ report = Report_new
    /\ before = Report_new
    /\ phase = "parsing"
    /\ severity = "none"
    /\ CfgIdle

\* Config::new(r, attrs) on a fresh report
Parse ==
    /\ phase = "parsing"
    /\ self' = Config_new(input).cfg
    /\ report' = PushAll(report, Config_new(input).pushed)
    /\ phase' = "parsed"
    /\ UNCHANGED <<other, orig, prev, op, result, calls, before, severity, runVars>>

NextParse == Parse

SpecParse == InitParse /\ [][NextParse]_vars

(***************************************************************************)
(* The comparison of two crates (compare.rs).  An item carries its name,   *)
(* visibility, attributes and node; a node carries what the comparators    *)
(* of its kind read.  The entries a function pushes on its report handle   *)
(* are the list of nodes it returns, in the order of the pushes, so that   *)
(* the handle returned by a push is the list built below it.               *)
(***************************************************************************)

\* most declarations of the module a declaration is searched in
MaxDecls == 2

\* a declared type: the node id the parser gave it and its pretty-printed text
Ty(id, text) == [id |-> id, text |-> text]

Item(name, vis, attrs, node) == [ident |-> name, vis |-> vis, attrs |-> attrs, node |-> node]

NodeOf(kind, ty, mutability, unsafety, constness, abi, items) ==
    [kind |-> kind, ty |-> ty, mutability |-> mutability, unsafety |-> unsafety,
     constness |-> constness, abi |-> abi, variadic |-> FALSE, items |-> items]

ModNode(items) == NodeOf("Mod", Ty(0, ""), "Immutable", "Normal", "NotConst", "Rust", items)

ConstNode(ty) == NodeOf("Const", ty, "Immutable", "Normal", "NotConst", "Rust", <<>>)

StaticNode(ty, mutability) == NodeOf("Static", ty, mutability, "Normal", "NotConst", "Rust", <<>>)

FnNode(unsafety, constness, abi) ==
    NodeOf("Fn", Ty(0, ""), "Immutable", unsafety, constness, abi, <<>>)

\* a node of a kind compare_mods has no arm for
OtherNode(kind) == NodeOf(kind, Ty(0, ""), "Immutable", "Normal", "NotConst", "Rust", <<>>)

is_public(item) ==
    IF item.node.kind \in {"ForeignMod", "DefaultImpl", "Impl", "Mac"} THEN TRUE
    ELSE item.vis = "Public"

\* ItemKind::descriptive_variant
descriptive_variant(node) ==
    CASE node.kind = "Struct" -> "struct"
      [] node.kind = "Impl" -> "item"
      [] OTHER -> node.kind

\* a report node with the entries pushed below it
Node(item, children) == [item |-> item, children |-> children]

RECURSIVE fmt_list(_, _)
\* the entries of a list in Debug form, separated by ", "
fmt_list(inner, i) ==
    IF i > Len(inner) THEN ""
    ELSE (IF i = 1 THEN "" ELSE ", ")
             \o (CASE inner[i].kind = "Not" -> "not(" \o fmt_list(inner[i].inner, 1) \o ")"
                   [] inner[i].kind = "All" -> "all(" \o fmt_list(inner[i].inner, 1) \o ")"
                   [] inner[i].kind = "Any" -> "any(" \o fmt_list(inner[i].inner, 1) \o ")"
                   [] inner[i].kind = "TargetProperty" ->
                         inner[i].key \o "=\"" \o inner[i].val \o "\""
                   [] inner[i].kind = "Feature" -> "feature=\"" \o inner[i].key \o "\""
                   [] inner[i].kind = "Flag" -> inner[i].key
                   [] inner[i].kind = "True" -> "__true"
                   [] inner[i].kind = "False" -> "__false")
             \o fmt_list(inner, i + 1)

\* impl fmt::Debug for Config
Debug(c) == fmt_list(<<c>>, 1)

\* impl fmt::Display for Config
Display(c) ==
    IF c = True THEN "always available"
    ELSE IF c = False THEN "never available"
    ELSE "#[cfg(" \o Debug(c) \o ")]"

\* Config::report: the entries left on r when `below` is pushed on the
\* handle it returns
Config_report(c, parent, prefix, below) ==
    IF subset(parent, c) THEN below
    ELSE <<Node(ReportItem("Inherit", "Note", prefix \o "#[cfg(" \o Debug(c) \o ")]"), below)>>

\* the Debug form of a type: the pretty-printed text, without the node id
DebugTy(ty) == "type(" \o ty.text \o ")"

types_equal(lhs, rhs) == DebugTy(lhs) = DebugTy(rhs)

\* push!(r, severity, text) with nothing pushed below the new entry
Entry(sev, text) == Node(ReportItem("Strict", sev, text), <<>>)

\* changed!(r, severity, what, (was => now))
Changed(sev, what, was, now) ==
    Entry(sev, what \o " has changed:\n  Was: " \o was \o "\n  Now: " \o now)

\* the entries of a parse as report nodes
Pushed(items) == [i \in 1..Len(items) |-> From(items[i])]

compare_functions(old, new) ==
    (IF old.unsafety # new.unsafety
     THEN <<Changed("Major", "unsafety", old.unsafety, new.unsafety)>> ELSE <<>>)
        \o (IF old.abi # new.abi
            THEN <<Changed("Major", "abi", old.abi, new.abi)>> ELSE <<>>)

\* the closure of the Mod arm of the old pass
ModArm(item, new) == [pushed |-> <<>>, matched |-> new.node.kind = "Mod"]

ConstArm_silent_static(item, new) ==
    LET type == IF ~types_equal(item.node.ty, new.node.ty)
                THEN <<Changed("Major", "const " \o item.ident \o "'s type",
                               DebugTy(item.node.ty), DebugTy(new.node.ty))>>
                ELSE <<>>
    IN  CASE new.node.kind = "Const" -> [pushed |-> type, matched |-> TRUE]
          [] new.node.kind = "Static" ->
                [pushed |-> (IF new.node.mutability # "Immutable"
                             THEN <<Entry("Major", "const " \o item.ident
                                                       \o " replaced by static mut")>>
                             ELSE <<>>) \o type,
                 matched |-> TRUE]
          [] OTHER -> [pushed |-> <<>>, matched |-> FALSE]

\* the closure of the Const arm of the old pass
ConstArm(item, new) ==
    LET type == IF ~types_equal(item.node.ty, new.node.ty)
                THEN <<Changed("Major", "const " \o item.ident \o "'s type",
                               DebugTy(item.node.ty), DebugTy(new.node.ty))>>
                ELSE <<>>
    IN  CASE new.node.kind = "Const" -> [pushed |-> type, matched |-> TRUE]
          [] new.node.kind = "Static" ->
                [pushed |-> <<IF new.node.mutability # "Immutable"
                              THEN Entry("Major", "const " \o item.ident
                                                      \o " replaced by static mut")
                              ELSE Entry("Minor", "const " \o item.ident
                                                      \o " replaced by static")>> \o type,
                 matched |-> TRUE]
          [] OTHER -> [pushed |-> <<>>, matched |-> FALSE]

\* the closure of the Static arm of the old pass
StaticArm(item, new) ==
    LET type == IF ~types_equal(item.node.ty, new.node.ty)
                THEN <<Changed("Major", "static " \o item.ident \o "'s type",
                               DebugTy(item.node.ty), DebugTy(new.node.ty))>>
                ELSE <<>>
    IN  CASE new.node.kind = "Const" ->
                [pushed |-> <<Entry("Major", "static " \o item.ident \o " replaced by const")>>
                                \o type,
                 matched |-> TRUE]
          [] new.node.kind = "Static" ->
                [pushed |-> type \o (IF item.node.mutability # new.node.mutability
                                     THEN <<Changed("Major",
                                                    "static " \o item.ident \o "'s mutability",
                                                    item.node.mutability,
                                                    new.node.mutability)>>
                                     ELSE <<>>),
                 matched |-> TRUE]
          [] OTHER -> [pushed |-> <<>>, matched |-> FALSE]

\* the closure of the Fn arm of the old pass
FnArm(item, new) ==
    IF new.node.kind = "Fn"
    THEN [pushed |-> <<Node(ReportItem("Strict", "Note", "fn " \o item.ident),
                            (IF item.node.constness = "Const" /\ new.node.constness = "NotConst"
                             THEN <<Entry("Major", "const qualifier removed")>> ELSE <<>>)
                                \o compare_functions(item.node, new.node))>>,
          matched |-> TRUE]
    ELSE [pushed |-> <<>>, matched |-> FALSE]

\* the closure of the arm of the old pass that matches the item
OldArm(item, new) ==
    CASE item.node.kind = "Mod" -> ModArm(item, new)
      [] item.node.kind = "Const" -> ConstArm(item, new)
      [] item.node.kind = "Static" -> StaticArm(item, new)
      [] item.node.kind = "Fn" -> FnArm(item, new)

\* the closures of the new pass: they push nothing
NewArm(item, old) ==
    [pushed |-> <<>>,
     matched |-> CASE item.node.kind = "Mod" -> old.node.kind = "Mod"
                   [] item.node.kind \in {"Const", "Static"} ->
                         old.node.kind \in {"Const", "Static"}
                   [] item.node.kind = "Fn" -> old.node.kind = "Fn"]

\* the SearchResult search_items starts from, and the entries pushed for
\* the predicate of the item searched for
SearchStart(item_cfg) ==
    [item_cfg |-> item_cfg.cfg,
     found_cfgs |-> False,
     found_name |-> FALSE,
     found_pub |-> FALSE,
     found_kind |-> FALSE,
     pushed |-> Pushed(item_cfg.pushed) \o Config_report(item_cfg.cfg, True, "", <<>>),
     matched |-> <<>>]

\* search_items on an exported item of the wanted name whose predicate
\* intersects: the closure has run with the outcome `got`
SearchAccept(acc, local_cfg, item, got) ==
    [acc EXCEPT !.found_name = TRUE,
                !.found_pub = TRUE,
                !.pushed = @ \o Pushed(local_cfg.pushed)
                             \o Config_report(local_cfg.cfg, acc.item_cfg, "Comparing with ",
                                              got.pushed),
                !.found_cfgs = IF got.matched THEN union(@, local_cfg.cfg) ELSE @,
                !.found_kind = @ \/ got.matched,
                !.matched = IF got.matched THEN Append(@, item) ELSE @]

\* search_items on an exported item of the wanted name, with the closure of
\* the given pass
SearchVisit(acc, wanted, item, local_cfg, pass) ==
    IF ~intersects(acc.item_cfg, local_cfg.cfg)
    THEN [acc EXCEPT !.found_name = TRUE,
                     !.found_pub = TRUE,
                     !.pushed = @ \o Pushed(local_cfg.pushed)]
    ELSE SearchAccept(acc, local_cfg, item,
                      IF pass = "old" THEN OldArm(wanted, item) ELSE NewArm(wanted, item))

\* one iteration of the loop of search_items
SearchStep(acc, wanted, item, pass) ==
    IF item.ident # wanted.ident THEN acc
    ELSE IF ~is_public(item) THEN [acc EXCEPT !.found_name = TRUE]
    ELSE SearchVisit(acc, wanted, item, Config_new(item.attrs), pass)

RECURSIVE SearchLoop(_, _, _, _, _)
\* the loop of search_items from the i-th item on
SearchLoop(acc, wanted, iter, i, pass) ==
    IF i > Len(iter) THEN acc
    ELSE SearchLoop(SearchStep(acc, wanted, iter[i], pass), wanted, iter, i + 1, pass)

\* result.found_cfgs.simplify()
SearchFinish(found) == [found EXCEPT !.found_cfgs = simplify(@)]

\* search_items with the closure of the given pass: the SearchResult, the
\* entries pushed on r and the items the closure accepted, in the order of
\* the iteration
search_items(wanted, iter, pass) ==
    SearchFinish(SearchLoop(SearchStart(Config_new(wanted.attrs)), wanted, iter, 1, pass))

\* the kind name an arm hands to find_item
KindName(item) ==
    CASE item.node.kind = "Mod" -> "mod"
      [] item.node.kind = "Const" -> "const"
      [] item.node.kind = "Static" -> "static"
      [] item.node.kind = "Fn" -> "fn"

OldFinding_private_first(found) ==
    IF ~found.found_pub THEN <<Entry("Major", "made private")>>
    ELSE IF ~found.found_name THEN <<Entry("Major", "removed")>>
    ELSE IF ~subset(found.item_cfg, found.found_cfgs)
    THEN <<Entry("Major", "availability narrowed:\n  Was: " \o Display(found.item_cfg)
                              \o "\n  Now: " \o Display(found.found_cfgs))>>
    ELSE <<>>

\* find_item of the old pass: what it pushes after the search
OldFinding(found) ==
    IF ~found.found_name THEN <<Entry("Major", "removed")>>
    ELSE IF ~found.found_pub THEN <<Entry("Major", "made private")>>
    ELSE IF ~subset(found.item_cfg, found.found_cfgs)
    THEN <<Entry("Major", "availability narrowed:\n  Was: " \o Display(found.item_cfg)
                              \o "\n  Now: " \o Display(found.found_cfgs))>>
    ELSE <<>>

NewFinding_breaking(found) ==
    IF ~found.found_name THEN <<Entry("Breaking", "added")>>
    ELSE IF ~found.found_pub THEN <<Entry("Minor", "made public")>>
    ELSE IF ~subset(found.item_cfg, found.found_cfgs)
    THEN <<Entry("Minor", "availability widened:\n  Was: " \o Display(found.found_cfgs)
                              \o "\n  Now: " \o Display(found.item_cfg))>>
    ELSE <<>>

\* find_item of the new pass: what it pushes after the search
NewFinding(found) ==
    IF ~found.found_name THEN <<Entry("Minor", "added")>>
    ELSE IF ~found.found_pub THEN <<Entry("Minor", "made public")>>
    ELSE IF ~subset(found.item_cfg, found.found_cfgs)
    THEN <<Entry("Minor", "availability widened:\n  Was: " \o Display(found.found_cfgs)
                              \o "\n  Now: " \o Display(found.item_cfg))>>
    ELSE <<>>

\* find_item! of the old pass after the search: the scope of the item with
\* the entries below it, and what the Mod arm added to child_mods
OldEntries(item, found) ==
    [pushed |-> (IF item.node.kind = "Fn" /\ item.node.variadic
                 THEN <<Entry("Error", "non-foreign fn " \o item.ident \o " is variadic")>>
                 ELSE <<>>)
                    \o <<Node(ReportItem("Strict", "Note", KindName(item) \o " " \o item.ident),
                              found.pushed \o OldFinding(found))>>,
     child_mods |-> IF item.node.kind = "Mod"
                    THEN [i \in 1..Len(found.matched) |-> <<item, found.matched[i]>>]
                    ELSE <<>>]

\* one iteration of the loop over the old items: the entries it pushes
\* on r and what it adds to child_mods
OldItem(item, new) ==
    IF ~is_public(item) THEN [pushed |-> <<>>, child_mods |-> <<>>]
    ELSE IF item.node.kind \in {"Mod", "Const", "Static", "Fn"}
    THEN OldEntries(item, search_items(item, new, "old"))
    ELSE [pushed |-> <<Entry("Warning", "Unhandled: " \o descriptive_variant(item.node)
                                            \o " " \o item.ident)>>,
          child_mods |-> <<>>]

\* find_item! of the new pass after the search: the Lazy scope of the item
NewEntries(item, found) ==
    <<Node(ReportItem("Lazy", "Note", KindName(item) \o " " \o item.ident),
           found.pushed \o NewFinding(found))>>

\* one iteration of the loop over the new items: the entries it pushes on r
NewItem(item, old) ==
    IF ~is_public(item) \/ item.node.kind \notin {"Mod", "Const", "Static", "Fn"} THEN <<>>
    ELSE NewEntries(item, search_items(item, old, "new"))

\* the entries and child modules of one iteration followed by those of the rest
OldJoin(head, rest) ==
    [pushed |-> head.pushed \o rest.pushed, child_mods |-> head.child_mods \o rest.child_mods]

RECURSIVE OldPass(_, _, _)
\* the loop over the old items from the i-th on
OldPass(old, new, i) ==
    IF i > Len(old) THEN [pushed |-> <<>>, child_mods |-> <<>>]
    ELSE OldJoin(OldItem(old[i], new), OldPass(old, new, i + 1))

RECURSIVE NewPass(_, _, _)
\* the loop over the new items from the i-th on
NewPass(old, new, i) ==
    IF i > Len(new) THEN <<>> ELSE NewItem(new[i], old) \o NewPass(old, new, i + 1)

\* the scope of a pair of child modules: the entries for their predicates
\* and, on the handle the second report returns, those of their comparison
ChildScope(item, old_config, new_config, below) ==
    Node(ReportItem("Strict", "Note", "mod " \o item.ident),
         Pushed(old_config.pushed)
             \o Config_report(old_config.cfg, True, "", <<>>)
             \o Pushed(new_config.pushed)
             \o Config_report(new_config.cfg, old_config.cfg, "Comparing with ", below))

RECURSIVE compare_mods(_, _)

\* the loop over child_mods
Recurse(child_mods) ==
    [i \in 1..Len(child_mods) |->
        ChildScope(child_mods[i][1],
                   Config_new(child_mods[i][1].attrs),
                   Config_new(child_mods[i][2].attrs),
                   compare_mods(child_mods[i][1].node.items, child_mods[i][2].node.items))]

\* the entries of the two passes followed by the scopes of the child modules
Passes(passed, added) == passed.pushed \o added \o Recurse(passed.child_mods)

\* compare_mods on the items of two modules: the entries pushed on r
compare_mods(old, new) == Passes(OldPass(old, new, 1), NewPass(old, new, 1))

\* a parsed crate: its attributes and the items of its root module
Crate(attrs, items) == [some |-> TRUE, attrs |-> attrs, module |-> items]

\* what parse_crate returns for a file that is no crate
NoCrate == [some |-> FALSE, attrs |-> <<>>, module |-> <<>>]

\* compare_crates before compare_mods: the entries for the crates' predicates
CoverageEntries(old_config, new_config) ==
    Pushed(old_config.pushed)
        \o Pushed(new_config.pushed)
        \o (IF ~subset(old_config.cfg, new_config.cfg)
            THEN <<Entry("Major", "New crate reduces #[cfg] coverage\n  Was: "
                                      \o Display(old_config.cfg) \o "\n  Now: "
                                      \o Display(new_config.cfg))>>
            ELSE IF ~subset(new_config.cfg, old_config.cfg)
            THEN <<Entry("Minor", "New crate increases #[cfg] coverage\n  Was: "
                                      \o Display(old_config.cfg) \o "\n  Now: "
                                      \o Display(new_config.cfg))>>
            ELSE <<>>)

\* compare_crates: the entries pushed on r
compare_crates(old, new) ==
    CoverageEntries(Config_new(old.attrs), Config_new(new.attrs))
        \o compare_mods(old.module, new.module)

\* create_report: the report handed back
create_report(old, new) ==
    [Report_new EXCEPT !.children =
        (IF ~old.some THEN <<Entry("Error", "Failed to read crate at inputs/old.rs")>> ELSE <<>>)
            \o (IF ~new.some
                THEN <<Entry("Error", "Failed to read crate at inputs/new.rs")>> ELSE <<>>)
            \o (IF old.some /\ new.some THEN compare_crates(old, new) ELSE <<>>)]

(***************************************************************************)
(* A run of the program: main calls create_report on the two input files   *)
(* and prints the highest severity of the report it gets back.             *)
(***************************************************************************)

\* #[cfg(m)] as the attribute list of an item
CfgAttr(m) == <<List("cfg", <<m>>)>>

\* no attribute, an atom, an atom of a target property, a predicate no target
\* satisfies, a negation, and a malformed predicate
ItemAttrs ==
    {<<>>,
     CfgAttr(NameValue("feature", LitStr("one"))),
     CfgAttr(NameValue("target_os", LitStr("linux"))),
     CfgAttr(List("all", <<NameValue("target_os", LitStr("linux")),
                           NameValue("target_os", LitStr("windows"))>>)),
     CfgAttr(List("not", <<NameValue("feature", LitStr("one"))>>)),
     CfgAttr(List("not", <<>>))}

\* the declaration searched for and the declarations it is searched among,
\* varying in predicate, visibility and name
PredicateItems ==
    {Item("a", "Public", t, ConstNode(Ty(1, "u8"))) : t \in ItemAttrs}
        \cup {Item("a", "Public", <<>>, FnNode("Normal", "NotConst", "Rust")),
              Item("a", "Public", CfgAttr(NameValue("feature", LitStr("one"))),
                   FnNode("Normal", "NotConst", "Rust")),
              Item("a", "Inherited", <<>>, ConstNode(Ty(1, "u8"))),
              Item("b", "Public", <<>>, ConstNode(Ty(1, "u8")))}

\* declarations of one name varying in kind and in what the comparators read
KindItems ==
    {Item("a", "Public", <<>>, n) :
        n \in {ConstNode(Ty(1, "u8")), ConstNode(Ty(2, "u8")), ConstNode(Ty(3, "u16")),
               StaticNode(Ty(1, "u8"), "Immutable"), StaticNode(Ty(2, "u8"), "Mutable"),
               StaticNode(Ty(3, "u16"), "Immutable"), StaticNode(Ty(3, "u16"), "Mutable"),
               FnNode("Normal", "NotConst", "Rust"), FnNode("Unsafe", "NotConst", "Rust"),
               FnNode("Normal", "Const", "Rust"), FnNode("Normal", "NotConst", "C"),
               OtherNode("Struct"), ModNode(<<>>)}}
        \cup {Item("", "Inherited", <<>>, OtherNode("Impl"))}

\* modules of one name with at most one member, varying in both predicates
ModItems ==
    {Item("a", "Public", t, ModNode(members)) :
        t \in {<<>>, CfgAttr(NameValue("feature", LitStr("one"))),
               CfgAttr(NameValue("target_os", LitStr("linux")))},
        members \in {<<>>} \cup
            {<<Item("b", "Public", u, ConstNode(Ty(1, "u8")))>> :
                u \in {<<>>, CfgAttr(NameValue("feature", LitStr("one"))),
                       CfgAttr(NameValue("target_os", LitStr("linux"))),
                       CfgAttr(List("not", <<NameValue("feature", LitStr("one"))>>))}}}

\* the attributes of a crate
CrateAttrs == {<<>>, CfgAttr(NameValue("feature", LitStr("one")))}

\* the pairs of crates read: one declaration against the declarations of
\* the other crate, in both directions
Inputs ==
    \/ \E x \in PredicateItems, c \in SeqsUpTo(PredicateItems, MaxDecls) :
          \/ input = [old |-> Crate(<<>>, <<x>>), new |-> Crate(<<>>, c)]
          \/ input = [old |-> Crate(<<>>, c), new |-> Crate(<<>>, <<x>>)]
    \/ \E c \in SeqsUpTo(KindItems, 1), d \in SeqsUpTo(KindItems, 1) :
          input = [old |-> Crate(<<>>, c), new |-> Crate(<<>>, d)]
    \/ \E x \in ModItems, y \in ModItems :
          input = [old |-> Crate(<<>>, <<x>>), new |-> Crate(<<>>, <<y>>)]
    \/ \E t \in CrateAttrs, u \in CrateAttrs :
          input = [old |-> Crate(t, <<>>), new |-> Crate(u, <<>>)]
    \/ input \in {[old |-> NoCrate, new |-> Crate(<<>>, <<>>)],
                  [old |-> Crate(<<>>, <<>>), new |-> NoCrate],
                  [old |-> NoCrate, new |-> NoCrate]}

Init ==
    /\ Inputs
    /\ loop = [pc |-> "idle", opts |-> <<>>, positions |-> <<>>, visited |-> <<>>]
    /\ report = Report_new
    /\ before = Report_new
    /\ phase = "start"
    /\ severity = "none"
    /\ CfgIdle

\* let report = create_report(old, new)
CreateReport ==
    /\ phase = "start"
    /\ report' = create_report(input.old, input.new)
    /\ before' = report'
    /\ phase' = "reported"
    /\ UNCHANGED <<severity, cfgVars, runVars>>

\* println!("Severity: {:?}", report.highest_severity())
PrintSeverity ==
    /\ phase = "reported"
    /\ severity' = highest_severity(report)
    /\ phase' = "printed"
    /\ UNCHANGED <<report, before, cfgVars, runVars>>

Next == CreateReport \/ PrintSeverity

Spec == Init /\ [][Next]_vars

RECURSIVE Nodes(_)
\* a report's nodes: the report itself and the nodes of its children
Nodes(r) == {r} \cup UNION {Nodes(r.children[i]) : i \in 1..Len(r.children)}

Texts(r) == {n.item.text : n \in Nodes(r)}

\* the aggregate severity of section 4.3: the maximum over a node and its children
RECURSIVE AggregateSeverity(_)
AggregateSeverity(r) ==
    LET all == {Ord(Severity, r.item.severity)}
                   \cup {Ord(Severity, AggregateSeverity(r.children[i])) :
                            i \in 1..Len(r.children)}
    IN  Severity[CHOOSE m \in all : \A k \in all : k <= m]

(***************************************************************************)
(* Claims about the predicate algebra.                                     *)
(***************************************************************************)

\* C1: subset(A, B) returns true exactly when every valid assignment that makes A
\* true makes B true; it returns true whenever B is the Universal sentinel.
SubsetDecidesEntailment ==
    op = "subset" =>
        /\ result <=> Entails(self, other)
        /\ is_universal(other) => result

SubsetWitness ==
    /\ op = "subset"
    /\ ~is_universal(other)
    /\ self.kind = "All"
    /\ other.kind = "Any"
    /\ find_free_vars(self) # find_free_vars(other)
    /\ result

\* C2: intersects(A, B) returns true exactly when some valid assignment makes both
\* A and B true, sentinels and unsatisfiable predicates included.
IntersectsDecidesOverlap ==
    op = "intersects" => (result <=> Overlap(self, other))

\* C3: equivalent(A, B) returns true if and only if subset(A, B) and subset(B, A)
\* both return true.
EquivalentIsMutualSubset ==
    op = "equivalent" => (result <=> (subset(self, other) /\ subset(other, self)))

EquivalentWitness ==
    /\ op = "equivalent"
    /\ result
    /\ self # other
    /\ ~is_universal(self)
    /\ find_free_vars(self) # {}

\* C4: after A.union(B) the receiver accepts a valid assignment if and only if the
\* original A or B accepts it.
UnionAcceptsEither ==
    op = "union" =>
        \A s \in ValidAssignments :
            evaluate(self, s) <=> (evaluate(orig, s) \/ evaluate(other, s))

UnionWitness ==
    /\ op = "union"
    /\ orig.kind # "Any"
    /\ other.kind = "Any"
    /\ Len(other.inner) = 2
    /\ self = Any(Append(other.inner, orig))

\* C5: the predicate simplify() leaves evaluates, under every assignment, to what
\* the predicate evaluated to before.
SimplifyPreservesMeaning ==
    calls >= 1 =>
        \A s \in SUBSET AllVars : evaluate(self, s) <=> evaluate(orig, s)

SimplifyChangedWitness ==
    /\ calls = 1
    /\ self # orig
    /\ self \notin {True, False}

\* C6: simplify() applied to an already simplified tree leaves the tree unchanged.
SimplifyIdempotent ==
    calls = 2 => self = prev

SimplifyTwiceWitness ==
    /\ calls = 2
    /\ prev # orig
    /\ prev.kind \in {"Not", "All", "Any"}

\* C7: for atoms a and b, intersects(a, b) is false exactly when they are
\* TargetProperty atoms of the same key with different values, and subset(a, b) is
\* true exactly when they are the same atom.
AtomsIndependent ==
    (self \in Atoms /\ other \in Atoms) =>
        /\ op = "intersects" =>
              (~result <=> /\ self.kind = "TargetProperty"
                           /\ other.kind = "TargetProperty"
                           /\ self.key = other.key
                           /\ self.val # other.val)
        /\ op = "subset" => (result <=> self = other)

AtomsExclusiveWitness ==
    /\ op = "intersects"
    /\ self = TargetProperty("target_os", "linux")
    /\ other = TargetProperty("target_os", "windows")
    /\ ~result

RECURSIVE Subtrees(_)
\* a predicate and every predicate nested in it
Subtrees(c) == {c} \cup UNION {Subtrees(c.inner[i]) : i \in 1..Len(c.inner)}

\* the entries of the combinator c among the given sentinels
SentinelEntries(c, sentinels) ==
    {i \in 1..Len(c.inner) : c.inner[i] \in sentinels}

\* C19 as stated: after simplify() the predicate is a sentinel or holds no
\* Universal/Never inside any Not, All or Any node.
SimplifiedHasNoNestedSentinel ==
    calls >= 1 =>
        \/ self \in {True, False}
        \/ \A c \in Subtrees(self) : SentinelEntries(c, {True, False}) = {}

\* C19 as amended: after simplify() no All node holds Universal, no Any node holds
\* Never and no Not node wraps a sentinel; Never may stay in an All list and
\* Universal in an Any list.
SimplifiedHasNoIdentityEntry ==
    calls >= 1 =>
        \A c \in Subtrees(self) :
            /\ c.kind = "All" => SentinelEntries(c, {True}) = {}
            /\ c.kind = "Any" => SentinelEntries(c, {False}) = {}
            /\ c.kind = "Not" => SentinelEntries(c, {True, False}) = {}

SimplifiedKeepsAbsorbingWitness ==
    /\ calls = 1
    /\ self.kind = "All"
    /\ SentinelEntries(self, {False}) # {}
    /\ self # orig

\* the Cartesian product of the grouped choices: one value or none for every
\* TargetProperty key, in or out for every Feature and Flag
GroupedChoices(a, b) ==
    LET fv == find_free_vars(a) \cup find_free_vars(b)
    IN  {s \in SUBSET fv :
            \A x, y \in s : (x.kind = "TargetProperty" /\ y.kind = "TargetProperty"
                             /\ x.key = y.key) => x.val = y.val}

\* what holds of the rounds the enumeration has made so far
AnyRounds ==
    LET seen == loop.visited
    IN  /\ \A i \in 1..Len(seen) : seen[i] \in GroupedChoices(self, other)
        /\ \A i, j \in 1..Len(seen) : seen[i] = seen[j] => i = j
        /\ \A i \in 1..Len(seen) :
              Closure(op, self, other, seen[i]) <=>
                  (i = Len(seen) /\ loop.pc = "done" /\ result)
        /\ (loop.pc = "done" /\ ~result) =>
              {seen[i] : i \in 1..Len(seen)} = GroupedChoices(self, other)

\* C20: the enumeration loop terminates for every pair of predicates; it hands the
\* closure each element of the Cartesian product of the grouped choices exactly
\* once when the closure never returns true, never an assignment with two values
\* of one TargetProperty key, and it stops at the first assignment the closure accepts.
AnyEnumeratesAndTerminates == <>(loop.pc = "done" /\ AnyRounds)

AnyExhaustedWitness ==
    /\ loop.pc = "done"
    /\ ~result
    /\ Len(loop.visited) = 6
    /\ \E i \in 1..Len(loop.opts) : Len(loop.opts[i]) = 2

(***************************************************************************)
(* Claims about the report tree.                                           *)
(***************************************************************************)

\* C8: after strip_lazy a Lazy node has been deleted if and only if none of the
\* descendants that survived the pass below it, at any depth, is Strict.
LazyDeletedIffNoStrictDescendant ==
    phase = "stripped" =>
        \A n \in Nodes(before) :
            n.item.strict = "Lazy" =>
                (n.item.text \notin Texts(report)
                    <=> ~\E d \in Nodes(strip_lazy(n).node) \ {strip_lazy(n).node} :
                            d.item.strict = "Strict")

\* C9: every Strict node of the tree before strip_lazy is in the tree after it.
StrictNeverDeleted ==
    phase = "stripped" =>
        \A n \in Nodes(before) :
            n.item.strict = "Strict" => n.item.text \in Texts(report)

\* C10: highest_severity of a report is the maximum of its own severity and the
\* aggregate severities of its children, so never below its own severity.
HighestSeverityIsAggregate ==
    severity # "none" =>
        /\ severity = AggregateSeverity(report)
        /\ Ord(Severity, severity) >= Ord(Severity, report.item.severity)

(***************************************************************************)
(* Claims about the parsing of predicates                                  *)
(***************************************************************************)

\* section 6: the forms the parser has no translation for
Malformed(m) ==
    \/ m.meta = "NameValue" /\ m.lit.kind # "Str"
    \/ m.meta = "NameValue" /\ m.name \notin TargetKeys \cup {"feature", "target_has_atomic"}
    \/ m.meta = "List" /\ m.name = "not" /\ Len(m.items) # 1
    \/ m.meta = "List" /\ m.name \notin {"all", "any", "not"}

RECURSIVE MalformedCount(_)
\* the malformed sub-expressions the parser meets: a malformed one is
\* replaced whole, a well-formed list is searched entry by entry
MalformedCount(m) ==
    LET RECURSIVE Sum(_)
        Sum(i) == IF i = 0 THEN 0 ELSE MalformedCount(m.items[i]) + Sum(i - 1)
    IN  IF Malformed(m) THEN 1 ELSE Sum(Len(m.items))

RECURSIVE Degraded(_)
\* section 6: the predicate with each malformed sub-expression replaced by
\* the opaque flag named after its key or list head
Degraded(m) ==
    IF Malformed(m) THEN Flag(m.name)
    ELSE CASE m.meta = "Word" ->
                 IF m.name \in {"unix", "windows"}
                 THEN TargetProperty("target_family", m.name) ELSE Flag(m.name)
           [] m.meta = "List" /\ m.name = "all" ->
                 All([i \in 1..Len(m.items) |-> Degraded(m.items[i])])
           [] m.meta = "List" /\ m.name = "any" ->
                 Any([i \in 1..Len(m.items) |-> Degraded(m.items[i])])
           [] m.meta = "List" /\ m.name = "not" -> Not(Degraded(m.items[1]))
           [] m.meta = "NameValue" /\ m.name = "feature" -> Feature(m.lit.value)
           [] m.meta = "NameValue" /\ m.name \in TargetKeys ->
                 TargetProperty(m.name, m.lit.value)
           [] OTHER -> Flag("target_has_atomic=\"" \o m.lit.value \o "\"")

\* the single #[cfg(..)] argument of the parsed attribute list
ParsedMeta == input[1].items[1]

SinglePredicate ==
    Len(input) = 1 /\ input[1].meta = "List" /\ input[1].name = "cfg" /\ Len(input[1].items) = 1

\* C17: parsing a predicate always yields a predicate; every malformed
\* sub-expression (unknown key, non-string value, not(..) without exactly one
\* argument, unknown list head) pushes exactly one Error entry and becomes the
\* flag named after its key or list head, the rest being parsed normally
MalformedDegradesToFlag ==
    (phase = "parsed" /\ SinglePredicate) =>
        /\ self = Degraded(ParsedMeta)
        /\ Len(report.children) = MalformedCount(ParsedMeta)
        /\ \A i \in 1..Len(report.children) :
              /\ report.children[i].item.severity = "Error"
              /\ report.children[i].children = <<>>

\* a non-string value under an unknown key inside a well-formed list, next to
\* a well-formed entry
MalformedInsideListWitness ==
    /\ phase = "parsed"
    /\ SinglePredicate
    /\ ParsedMeta = List("all", <<NameValue("bogus", LitInt("1")), NameValue("feature", LitStr("one"))>>)
    /\ self = All(<<Flag("bogus"), Feature("one")>>)
    /\ Len(report.children) = 1

(***************************************************************************)
(* Claims about the comparison of two crates                               *)
(***************************************************************************)

RECURSIVE HasStrictDescendant(_)
\* some node below r is Strict
HasStrictDescendant(r) ==
    \E i \in 1..Len(r.children) :
        r.children[i].item.strict = "Strict" \/ HasStrictDescendant(r.children[i])

RECURSIVE HasBareLazy(_)
\* r or a node below it is Lazy and has no Strict node below it
HasBareLazy(r) ==
    \/ r.item.strict = "Lazy" /\ ~HasStrictDescendant(r)
    \/ \E i \in 1..Len(r.children) : HasBareLazy(r.children[i])

\* C11: the report create_report hands back has been pruned: it holds no
\* Lazy node without a Strict descendant
ReturnedReportIsPruned ==
    phase \in {"reported", "printed"} => ~HasBareLazy(report)

RECURSIVE Below(_)
\* the entries below r, parents before their children, in the order of the pushes
Below(r) ==
    LET RECURSIVE Walk(_)
        Walk(i) ==
            IF i > Len(r.children) THEN <<>>
            ELSE <<r.children[i].item>> \o Below(r.children[i]) \o Walk(i + 1)
    IN  Walk(1)

\* the findings below r: the entries of a severity above Note
AboveNote(item) == Ord(Severity, item.severity) > Ord(Severity, "Note")

Findings(r) == SelectSeq(Below(r), AboveNote)

\* both crates were read, and the comparison has been made
Compared == phase \in {"reported", "printed"} /\ input.old.some /\ input.new.some

\* section 4.2: the kinds the engine has comparators for
Handled(x) == x.node.kind \in {"Mod", "Const", "Static", "Fn"}

\* the attributes hold no malformed predicate
WellFormed(attrs) ==
    \A i \in 1..Len(attrs) :
        (attrs[i].meta = "List" /\ attrs[i].name = "cfg" /\ Len(attrs[i].items) = 1)
            => MalformedCount(attrs[i].items[1]) = 0

\* the entries pushed for the crates themselves, before any declaration is looked at
CrateEntries ==
    Len(CoverageEntries(Config_new(input.old.attrs), Config_new(input.new.attrs)))

\* how many of the first i declarations are exported and of a handled kind
CountBefore(items, i) == Cardinality({j \in 1..i : is_public(items[j]) /\ Handled(items[j])})

\* how many of the first i declarations are exported
ExportedBefore(items, i) == Cardinality({j \in 1..i : is_public(items[j])})

\* the scope the old pass opened for the i-th old declaration
OldScope(i) == report.children[CrateEntries + ExportedBefore(input.old.module, i)]

\* the scope the new pass opened for the i-th new declaration
NewScope(i) ==
    report.children[CrateEntries
                        + ExportedBefore(input.old.module, Len(input.old.module))
                        + CountBefore(input.new.module, i)]

\* the declarations of `items` that have the name of x
SameNamed(items, x) == {j \in 1..Len(items) : items[j].ident = x.ident}

\* the Lazy scopes of the crate level that are named for x: the new pass's
LazyScopesFor(x) ==
    {k \in 1..Len(report.children) :
        /\ report.children[k].item.strict = "Lazy"
        /\ \E kind \in {"mod", "const", "static", "fn"} :
              report.children[k].item.text = kind \o " " \o x.ident}

PredicateOf(x) == Config_new(x.attrs).cfg

\* section 4.2: the kind-specific matching of an old declaration and a candidate
KindCompatible(x, y) ==
    CASE x.node.kind = "Mod" -> y.node.kind = "Mod"
      [] x.node.kind \in {"Const", "Static"} -> y.node.kind \in {"Const", "Static"}
      [] x.node.kind = "Fn" -> y.node.kind = "Fn"
      [] OTHER -> FALSE

\* the exported declarations of `items` named as x whose predicate overlaps that of x
Intersecting(items, x) ==
    {j \in SameNamed(items, x) :
        is_public(items[j]) /\ Overlap(PredicateOf(x), PredicateOf(items[j]))}

\* C13: an exported old declaration with exported same-named counterparts,
\* none of the intersecting ones being kind-compatible, gets a Major entry
\* "no longer a <kind>"
KindChangeReported ==
    Compared =>
        \A i \in 1..Len(input.old.module) :
            LET x == input.old.module[i]
                new == input.new.module
            IN  (/\ is_public(x) /\ Handled(x) /\ WellFormed(x.attrs)
                 /\ \E j \in SameNamed(new, x) : is_public(new[j])
                 /\ \A j \in SameNamed(new, x) : is_public(new[j]) => WellFormed(new[j].attrs)
                 /\ \A j \in Intersecting(new, x) : ~KindCompatible(x, new[j]))
                    => \E k \in 1..Len(Findings(OldScope(i))) :
                          Findings(OldScope(i))[k]
                              = ReportItem("Strict", "Major", "no longer a " \o KindName(x))

\* the exported, kind-matching, predicate-intersecting candidates for x, in
\* the order of their declaration
Candidates(items, x) ==
    LET keep(j) == j \in Intersecting(items, x) /\ KindCompatible(x, items[j])
    IN  SelectSeq([j \in 1..Len(items) |-> j], keep)

\* the simplified union of the candidates' predicates
CandidateUnion(items, x) ==
    LET c == Candidates(items, x)
    IN  simplify(Any([k \in 1..Len(c) |-> PredicateOf(items[c[k]])]))

\* some valid assignment makes the predicate of x true and that of every candidate false
Uncovered(items, x) ==
    \E set \in ValidAssignments :
        /\ evaluate(PredicateOf(x), set)
        /\ \A k \in 1..Len(Candidates(items, x)) :
              ~evaluate(PredicateOf(items[Candidates(items, x)[k]]), set)

\* the text of an "availability narrowed" entry
NarrowedText(was, now) ==
    "availability narrowed:\n  Was: " \o Display(was) \o "\n  Now: " \o Display(now)

\* the texts an "availability narrowed" entry for x can have: its predicate
\* before, and after it the union of the predicates of any of the given declarations
NarrowedTexts(items, x) ==
    {NarrowedText(PredicateOf(x), False)}
        \cup {NarrowedText(PredicateOf(x),
                           simplify(Any([k \in 1..Len(sub) |-> PredicateOf(items[sub[k]])]))) :
                 sub \in {q \in SeqsUpTo(1..Len(items), Len(items)) :
                             q # <<>> /\ \A k \in 1..(Len(q) - 1) : q[k] < q[k + 1]}}

\* the "availability narrowed" entries among the findings made for the i-th old declaration
NarrowedEntries(i) ==
    LET narrowed(e) ==
            e.severity = "Major"
                /\ e.text \in NarrowedTexts(input.new.module, input.old.module[i])
    IN  SelectSeq(Findings(OldScope(i)), narrowed)

\* C14: for an exported old declaration with at least one exported,
\* kind-matching, predicate-intersecting new candidate, a Major "availability
\* narrowed" entry is made exactly if some valid assignment makes its predicate
\* true and that of every candidate false, and the entry cites its predicate
\* as before and the simplified union of the candidates' predicates as after
NarrowedIffUncovered ==
    Compared =>
        \A i \in 1..Len(input.old.module) :
            LET x == input.old.module[i]
                new == input.new.module
            IN  (/\ is_public(x) /\ Handled(x) /\ WellFormed(x.attrs)
                 /\ \A j \in SameNamed(new, x) : is_public(new[j]) => WellFormed(new[j].attrs)
                 /\ Candidates(new, x) # <<>>)
                    => NarrowedEntries(i)
                         = IF Uncovered(new, x)
                           THEN <<ReportItem("Strict", "Major",
                                             NarrowedText(PredicateOf(x),
                                                          CandidateUnion(new, x)))>>
                           ELSE <<>>

\* the text of an "availability widened" entry
WidenedText(was, now) ==
    "availability widened:\n  Was: " \o Display(was) \o "\n  Now: " \o Display(now)

\* the texts an "availability widened" entry for y can have: before, the
\* union of the predicates of any of the given declarations; after, its predicate
WidenedTexts(items, y) ==
    {WidenedText(False, PredicateOf(y))}
        \cup {WidenedText(simplify(Any([k \in 1..Len(sub) |-> PredicateOf(items[sub[k]])])),
                          PredicateOf(y)) :
                 sub \in {q \in SeqsUpTo(1..Len(items), Len(items)) :
                             q # <<>> /\ \A k \in 1..(Len(q) - 1) : q[k] < q[k + 1]}}

\* the Strict entries of the crate level that name x: the old pass's
StrictEntriesFor(x) ==
    {k \in 1..Len(report.children) :
        /\ report.children[k].item.strict = "Strict"
        /\ \E kind \in {"mod", "const", "static", "fn", "Unhandled: struct",
                        "Unhandled: item"} :
              report.children[k].item.text = kind \o " " \o x.ident}

TypeText(x, y) ==
    KindName(x) \o " " \o x.ident \o "'s type has changed:\n  Was: type(" \o x.node.ty.text
        \o ")\n  Now: type(" \o y.node.ty.text \o ")"

\* the old declarations C16 is about: an exported constant or static with
\* one same-named new declaration, an exported constant or static whose
\* predicate intersects its own
MatchedValue(i, j) ==
    LET x == input.old.module[i]
        y == input.new.module[j]
    IN  /\ is_public(x) /\ x.node.kind \in {"Const", "Static"} /\ WellFormed(x.attrs)
        /\ SameNamed(input.new.module, x) = {j}
        /\ is_public(y) /\ y.node.kind \in {"Const", "Static"} /\ WellFormed(y.attrs)
        /\ Overlap(PredicateOf(x), PredicateOf(y))

\* the findings made for the i-th old declaration about its type
TypeFindings(i, j) ==
    LET about(e) == e.text = TypeText(input.old.module[i], input.new.module[j])
    IN  SelectSeq(Findings(OldScope(i)), about)

\* the findings made for the i-th old declaration about neither its type
\* nor its availability
ShapeFindings(i, j) ==
    LET about(e) ==
            /\ e.text # TypeText(input.old.module[i], input.new.module[j])
            /\ e.text \notin NarrowedTexts(input.new.module, input.old.module[i])
    IN  SelectSeq(Findings(OldScope(i)), about)

\* C16: a constant replaced by a mutable static is Major, by an immutable
\* static Minor; a static whose mutability changed is Major; on each of
\* these paths a declared type whose rendering differs is one more Major
\* entry, and a type of the same rendering is none
ValueComparators ==
    Compared =>
        \A i \in 1..Len(input.old.module), j \in 1..Len(input.new.module) :
            LET x == input.old.module[i].node
                y == input.new.module[j].node
                shape == ShapeFindings(i, j)
                type == TypeFindings(i, j)
            IN  (MatchedValue(i, j) /\ y.kind = "Static")
                    => /\ IF x.ty.text # y.ty.text
                          THEN Len(type) = 1 /\ type[1].severity = "Major"
                          ELSE type = <<>>
                       /\ IF x.kind = "Const"
                          THEN /\ Len(shape) = 1
                               /\ shape[1].severity
                                      = IF y.mutability = "Mutable" THEN "Major" ELSE "Minor"
                          ELSE IF x.mutability # y.mutability
                          THEN Len(shape) = 1 /\ shape[1].severity = "Major"
                          ELSE shape = <<>>

\* a constant replaced by an immutable static whose type is written the
\* same but is another node of the syntax tree
ConstToStaticSameTypeWitness ==
    /\ Compared
    /\ Len(input.old.module) = 1
    /\ Len(input.new.module) = 1
    /\ MatchedValue(1, 1)
    /\ input.old.module[1].node.kind = "Const"
    /\ input.new.module[1].node.kind = "Static"
    /\ input.new.module[1].node.mutability = "Immutable"
    /\ input.old.module[1].node.ty # input.new.module[1].node.ty
    /\ input.old.module[1].node.ty.text = input.new.module[1].node.ty.text
    /\ Len(Findings(OldScope(1))) = 1
    /\ Findings(OldScope(1))[1].severity = "Minor"

RECURSIVE ScopesBelow(_)
\* the nodes below r, parents before their children
ScopesBelow(r) ==
    LET RECURSIVE Walk(_)
        Walk(i) ==
            IF i > Len(r.children) THEN <<>>
            ELSE <<r.children[i]>> \o ScopesBelow(r.children[i]) \o Walk(i + 1)
    IN  Walk(1)

\* the crates hold one exported module each, of the same name and with
\* intersecting well-formed predicates, so that their members are compared
ModulesCompared ==
    /\ Compared
    /\ Len(input.old.module) = 1
    /\ Len(input.new.module) = 1
    /\ \A m \in {input.old.module[1], input.new.module[1]} :
          is_public(m) /\ m.node.kind = "Mod" /\ WellFormed(m.attrs)
    /\ input.old.module[1].ident = input.new.module[1].ident
    /\ Overlap(PredicateOf(input.old.module[1]), PredicateOf(input.new.module[1]))

\* the scope compare_mods opened to compare the members of the two modules
MembersScope == report.children[Len(report.children)]

\* the scopes the old pass opened for the member m of the old module
MemberScopes(m) ==
    LET for(n) == n.item = ReportItem("Strict", "Note", KindName(m) \o " " \o m.ident)
    IN  SelectSeq(ScopesBelow(MembersScope), for)

\* C18: when two modules of the same name are compared, the predicate of
\* the module is the parent context of its members: a member whose predicate
\* the module's predicate entails gets no predicate entry, and no
\* "availability narrowed" entry is made for a member that every target
\* satisfying the modules' predicates keeps
ModulePredicateIsParentContext ==
    ModulesCompared =>
        LET old == input.old.module[1]
            new == input.new.module[1]
        IN  \A i \in 1..Len(old.node.items) :
                LET m == old.node.items[i]
                    scopes == MemberScopes(m)
                IN  (is_public(m) /\ Handled(m) /\ WellFormed(m.attrs))
                        => \A k \in 1..Len(scopes) :
                              /\ Entails(PredicateOf(old), PredicateOf(m))
                                    => \A c \in 1..Len(scopes[k].children) :
                                          scopes[k].children[c].item
                                              # ReportItem("Inherit", "Note",
                                                           "#[cfg(" \o Debug(PredicateOf(m))
                                                               \o ")]")
                              /\ (/\ Candidates(new.node.items, m) # <<>>
                                  /\ \A set \in ValidAssignments :
                                        (/\ evaluate(PredicateOf(old), set)
                                         /\ evaluate(PredicateOf(new), set)
                                         /\ evaluate(PredicateOf(m), set))
                                            => \E c \in 1..Len(Candidates(new.node.items, m)) :
                                                  evaluate(PredicateOf(new.node.items[
                                                      Candidates(new.node.items, m)[c]]), set))
                                    => \A c \in 1..Len(scopes[k].children) :
                                          scopes[k].children[c].item.text
                                              \notin NarrowedTexts(new.node.items, m)

====
